---------------------------- MODULE Spec2Model ----------------------------
(***************************************************************************)
(* QueryAI: the self-correcting Text-to-SQL loop                           *)
(* (TextToSQLAgent.answer_question), the read-only guard and the query     *)
(* executor of DatabaseManager, and the LLMEngine wrappers it drives.      *)
(*                                                                         *)
(* Text (SQL candidates, answers) is a sequence of one-character strings.  *)
(* Optional[T] is a sequence of length 0 (None) or 1 (a value).            *)
(***************************************************************************)
EXTENDS Integers, Sequences, FiniteSets

\* ------------------------------------------------------------------ bounds
\* Largest retry budget configured in a checked run.
MaxRetriesBound == 3

\* max_retries is a plain int, never validated: 0 and negatives are accepted.
RetryBudgets == (0 - 1) .. MaxRetriesBound

\* ------------------------------------------------------------ Optional[T]
None == << >>
Some(x) == << x >>

\* ------------------------------------------------------------------- text
Whitespace == {" ", "\t", "\n"}

LowerLetters == <<"a","b","c","d","e","f","g","h","i","j","k","l","m",
                  "n","o","p","q","r","s","t","u","v","w","x","y","z">>
UpperLetters == <<"A","B","C","D","E","F","G","H","I","J","K","L","M",
                  "N","O","P","Q","R","S","T","U","V","W","X","Y","Z">>

\* str.upper() on one character
UpperChar(c) ==
    IF \E i \in 1..Len(LowerLetters) : LowerLetters[i] = c
    THEN UpperLetters[CHOOSE i \in 1..Len(LowerLetters) : LowerLetters[i] = c]
    ELSE c

\* str.upper()
Upper(s) == [i \in 1..Len(s) |-> UpperChar(s[i])]

\* str.strip(): drop leading and trailing whitespace
Strip(s) ==
    LET keep == {i \in 1..Len(s) : s[i] \notin Whitespace}
    IN  IF keep = {} THEN << >>
        ELSE LET lo == CHOOSE i \in keep : \A j \in keep : i <= j
                 hi == CHOOSE i \in keep : \A j \in keep : j <= i
             IN  SubSeq(s, lo, hi)

\* str.split() with no separator: the maximal runs of non-whitespace
RECURSIVE SplitFrom(_, _, _)
SplitFrom(s, i, word) ==
    IF i > Len(s)
    THEN IF word = << >> THEN << >> ELSE << word >>
    ELSE IF s[i] \in Whitespace
         THEN IF word = << >> THEN SplitFrom(s, i + 1, << >>)
              ELSE << word >> \o SplitFrom(s, i + 1, << >>)
         ELSE SplitFrom(s, i + 1, Append(word, s[i]))

Split(s) == SplitFrom(s, 1, << >>)

\* " ".join(words)
RECURSIVE JoinSpace(_)
JoinSpace(words) ==
    IF words = << >> THEN << >>
    ELSE IF Len(words) = 1 THEN words[1]
    ELSE words[1] \o << " " >> \o JoinSpace(Tail(words))

\* needle in hay (Python substring test)
Contains(hay, needle) ==
    \E i \in 1..(Len(hay) - Len(needle) + 1) :
        SubSeq(hay, i, i + Len(needle) - 1) = needle

\* ------------------------------------------------------------- db_manager
READ_ONLY_BLOCKLIST ==
    { <<"I","N","S","E","R","T">>, <<"U","P","D","A","T","E">>,
      <<"D","E","L","E","T","E">>, <<"D","R","O","P">>,
      <<"A","L","T","E","R">>, <<"T","R","U","N","C","A","T","E">> }

\* " ".join(sql.strip().upper().split()), one method call after the other:
\* each intermediate string is a value of its own
NormalizedWithoutUpper(sql) ==
    CHOOSE joined \in
        { JoinSpace(words) :
            words \in { Split(stripped) : stripped \in { Strip(sql) } } } : TRUE
Normalized(sql) ==
    CHOOSE joined \in
        { JoinSpace(words) :
            words \in { Split(upper) :
                upper \in { Upper(stripped) : stripped \in { Strip(sql) } } } } : TRUE

\* `normalized = ...; return not any(keyword in normalized for keyword in ...)`
is_read_only_sql(sql) ==
    \A normalized \in { Normalized(sql) } :
        ~ \E keyword \in READ_ONLY_BLOCKLIST : Contains(normalized, keyword)

\* run_read_only_query: `if not is_read_only_sql(sql): raise ValueError(...)`
GuardRejectsCaseSensitive(sql) ==
    \E normalized \in { NormalizedWithoutUpper(sql) } :
        \E keyword \in READ_ONLY_BLOCKLIST : Contains(normalized, keyword)
GuardRejects(sql) == ~ is_read_only_sql(sql)

\* Exceptions are (type, message); str(exc) is the message.
Exc(type, msg) == [type |-> type, msg |-> msg]
Str(exc) == exc.msg

UnsafeError == Exc("ValueError", "Only read-only SELECT-style queries are allowed.")

\* what the driver can raise while a statement is executed
StatementErrors == { Exc("OperationalError", "near SELEC: syntax error"),
                     Exc("ProgrammingError", "relation orders does not exist") }
\* what engine.connect() can raise when the database cannot be reached/opened
ConnectivityErrors == { Exc("OperationalError", "unable to open database file") }

\* rows fetched by a statement; QueryResult(dataframe, rowcount=len(rows))
RowSets == { << >>, << <<1, 30>>, <<2, 12>> >> }
DataFrame(rows, columns) == [rows |-> rows, columns |-> columns]
QueryResult(rows) ==
    [dataframe |-> DataFrame(rows, <<"user_id", "total">>), rowcount |-> Len(rows)]

\* DataFrame.to_string(index=False): a text rendering of the frame
to_string(df) == << "to_string", df.columns, df.rows >>

\* ------------------------------------------------------------- llm_engine
\* raw text the model can return for a SQL prompt (before .strip())
RawSqlOutputs ==
    { <<" ","S","E","L","E","C","T"," ","1","\n">>,
      <<"S","E","L","E","C"," ","x">>,
      <<"d","r","o","p"," "," ","t","\n">>,
      <<"S","E","L","E","C","T"," ","*"," ","F","R","O","M"," ",
        "u","p","d","a","t","e","s">> }

\* raw text the model can return for an answer prompt (before .strip())
RawAnswers == { <<" ","4","2","\n">>, <<"n","o"," ","d","a","t","a">> }

\* what a chain.invoke can raise (network / auth failure)
LlmErrors == { Exc("APIConnectionError", "Connection error.") }

\* ------------------------------------------------------------ environment
Questions == { "total orders by user", "users without orders" }
SchemaSummaries == { "Table orders: id (INTEGER), user_id (INTEGER), total (REAL)",
                     "" }
Dialects == { "sqlite", "postgresql" }
SchemaErrors == ConnectivityErrors

\* ---------------------------------------------------------- text2sql_agent
AgentResponseAnswerDropped(sql_, result_, error_, attempts_, answer_) ==
    [sql |-> sql_, result |-> result_, error |-> error_,
     attempts |-> attempts_, answer |-> None]
AgentResponse(sql_, result_, error_, attempts_, answer_) ==
    [sql |-> sql_, result |-> result_, error |-> error_,
     attempts |-> attempts_, answer |-> answer_]

\* `while attempts <= self._max_retries`
LoopConditionOffByOne(attempts_, max_) == attempts_ <= max_ + 1
LoopCondition(attempts_, max_) == attempts_ <= max_

\* `if attempts >= self._max_retries: break`
BudgetSpentEarly(attempts_, max_) == attempts_ + 1 >= max_
BudgetSpentLate(attempts_, max_) == attempts_ > max_
BudgetSpent(attempts_, max_) == attempts_ >= max_

\* `attempts += 1`
NextAttemptForgotten(attempts_) == attempts_
NextAttempt(attempts_) == attempts_ + 1

\* keyword arguments of self._llm.generate_sql(...)
GenerateArgs(question_, schema_, dialect_) ==
    [question |-> question_, schema_summary |-> schema_, dialect |-> dialect_]

\* keyword arguments of self._llm.refine_sql_on_error(...)
RefineArgsDefaultDialect(question_, schema_, sql_, error_, dialect_) ==
    [question |-> question_, schema_summary |-> schema_,
     previous_sql |-> sql_, error_message |-> error_, dialect |-> "sqlite"]
RefineArgs(question_, schema_, sql_, error_, dialect_) ==
    [question |-> question_, schema_summary |-> schema_,
     previous_sql |-> sql_, error_message |-> error_, dialect |-> dialect_]

\* `except Exception as exc`: which exceptions the handler of the loop catches
CatchesDriverErrorsOnly(exc) == exc.type \in {"OperationalError", "ProgrammingError"}
CatchesAllButValueError(exc) == exc.type # "ValueError"
CatchesAllButOperationalError(exc) == exc.type # "OperationalError"
CatchesAllButLlmErrors(exc) == exc.type # "APIConnectionError"
Catches(exc) == TRUE

VARIABLES
    max_retries,     \* self._max_retries
    question,        \* the argument of answer_question
    dialect,         \* self._db.engine.dialect.name
    pc,              \* position of the run in answer_question
    schema_summary,  \* local: Optional text
    attempts,        \* local
    last_error,      \* local: Optional[str]
    sql,             \* local: the current candidate
    result,          \* local: Optional QueryResult of the try block
    response,        \* Optional AgentResponse returned by the run
    escaped,         \* Optional exception that left answer_question
    trace,           \* the collaborator calls made so far, in order
    executed,        \* statements run_read_only_query handed to conn.execute
    connects,        \* number of engine.connect() calls of the executor
    main_pc,         \* position of the command-line main
    connected,       \* Optional outcome of test_connection in main
    exit_code,       \* Optional int returned by main
    fn_in,           \* argument text of a pure-function call
    fn_outs          \* values returned by successive pure-function calls

vars == << max_retries, question, dialect, pc, schema_summary, attempts,
           last_error, sql, result, response, escaped, trace, executed,
           connects, main_pc, connected, exit_code, fn_in, fn_outs >>

config == << max_retries, question, dialect >>
database == << executed, connects >>
\* what a run of answer_question never touches
outside == << main_pc, connected, exit_code, fn_in, fn_outs >>
\* everything a run of answer_question reads or writes
agent == << max_retries, question, dialect, pc, schema_summary, attempts,
            last_error, sql, result, response, escaped, trace, executed,
            connects >>

Call(op, args, ok, value) == [op |-> op, args |-> args, ok |-> ok, value |-> value]

Init ==
    /\ max_retries \in RetryBudgets
    /\ question \in Questions
    /\ dialect \in Dialects
    /\ pc = "get_schema_summary"
    /\ schema_summary = None
    /\ attempts = 0
    /\ last_error = None
    /\ sql = << >>
    /\ result = None
    /\ response = None
    /\ escaped = None
    /\ trace = << >>
    /\ executed = << >>
    /\ connects = 0
    /\ main_pc = "none"
    /\ connected = None
    /\ exit_code = None
    /\ fn_in = << >>
    /\ fn_outs = << >>

\* An exception of a generation call handled as a failed attempt would be.
PropagateSwallowed(exc) ==
    IF pc = "get_schema_summary"
    THEN /\ pc' = "raised"
         /\ escaped' = Some(exc)
         /\ UNCHANGED << attempts, last_error, sql, response >>
    ELSE /\ pc' = "refine_sql_on_error"
         /\ last_error' = Some(Str(exc))
         /\ escaped' = None
         /\ UNCHANGED << attempts, sql, response >>

\* An exception leaves answer_question.
Propagate(exc) ==
    /\ pc' = "raised"
    /\ escaped' = Some(exc)
    /\ UNCHANGED << attempts, last_error, sql, response >>

\* The top of the while loop, reached with the given locals: either enter the
\* try block or fall through to the final `return AgentResponse(...)`.
LoopHead(sql_, attempts_, last_error_) ==
    IF LoopCondition(attempts_, max_retries)
    THEN /\ pc' = "run_read_only_query"
         /\ response' = None
    ELSE /\ pc' = "returned"
         /\ response' = Some(AgentResponse(sql_, None, last_error_, attempts_, None))

\* The except block recording only the first error of the run.
ExceptHandlerKeepsFirstError(exc) ==
    LET kept == IF last_error = None THEN Some(Str(exc)) ELSE last_error
    IN  /\ last_error' = kept
        /\ escaped' = None
        /\ UNCHANGED << attempts, sql >>
        /\ IF BudgetSpent(attempts, max_retries)
           THEN /\ pc' = "returned"
                /\ response' = Some(AgentResponse(sql, None, kept, attempts, None))
           ELSE /\ pc' = "refine_sql_on_error"
                /\ response' = None

\* The except block of the loop for an exception raised inside the try block.
ExceptHandler(exc) ==
    IF ~ Catches(exc)
    THEN Propagate(exc)
    ELSE /\ last_error' = Some(Str(exc))
         /\ escaped' = None
         /\ UNCHANGED << attempts, sql >>
         /\ IF BudgetSpent(attempts, max_retries)
            THEN /\ pc' = "returned"
                 /\ response' = Some(AgentResponse(sql, None, Some(Str(exc)),
                                                   attempts, None))
            ELSE /\ pc' = "refine_sql_on_error"
                 /\ response' = None

\* lines 39-44: schema summary, dialect, initialisation of the locals
GetSchemaSummary ==
    /\ pc = "get_schema_summary"
    /\ \/ \E s \in SchemaSummaries :
            /\ schema_summary' = Some(s)
            /\ trace' = Append(trace, Call("get_schema_summary", << >>, TRUE, s))
            /\ pc' = "generate_sql"
            /\ attempts' = 0
            /\ last_error' = None
            /\ sql' = << >>
            /\ UNCHANGED << response, escaped >>
       \/ \E exc \in SchemaErrors :
            /\ trace' = Append(trace, Call("get_schema_summary", << >>, FALSE, exc))
            /\ Propagate(exc)
            /\ UNCHANGED schema_summary
    /\ UNCHANGED << config, result, database, outside >>

\* lines 47-52 and the first evaluation of the loop condition
GenerateSql ==
    /\ pc = "generate_sql"
    /\ LET args == GenerateArgs(question, schema_summary[1], dialect)
       IN  \/ \E raw \in RawSqlOutputs :
                /\ trace' = Append(trace, Call("generate_sql", args, TRUE, Strip(raw)))
                /\ sql' = Strip(raw)
                /\ attempts' = NextAttempt(attempts)
                /\ LoopHead(Strip(raw), NextAttempt(attempts), last_error)
                /\ UNCHANGED << last_error, escaped >>
           \/ \E exc \in LlmErrors :
                /\ trace' = Append(trace, Call("generate_sql", args, FALSE, exc))
                /\ Propagate(exc)
    /\ UNCHANGED << config, schema_summary, result, database, outside >>

\* line 56: DatabaseManager.run_read_only_query(sql)
RunReadOnlyQuery ==
    /\ pc = "run_read_only_query"
    /\ IF GuardRejects(sql)
       THEN /\ trace' = Append(trace, Call("run_read_only_query", sql, FALSE, UnsafeError))
            /\ ExceptHandler(UnsafeError)
            /\ UNCHANGED << result, database >>
       ELSE \/ \E exc \in ConnectivityErrors :
                 /\ connects' = connects + 1
                 /\ trace' = Append(trace, Call("run_read_only_query", sql, FALSE, exc))
                 /\ ExceptHandler(exc)
                 /\ UNCHANGED << result, executed >>
            \/ \E exc \in StatementErrors :
                 /\ connects' = connects + 1
                 /\ executed' = Append(executed, sql)
                 /\ trace' = Append(trace, Call("run_read_only_query", sql, FALSE, exc))
                 /\ ExceptHandler(exc)
                 /\ UNCHANGED result
            \/ \E rows \in RowSets :
                 /\ connects' = connects + 1
                 /\ executed' = Append(executed, sql)
                 /\ trace' = Append(trace, Call("run_read_only_query", sql, TRUE,
                                                QueryResult(rows)))
                 /\ result' = Some(QueryResult(rows))
                 /\ pc' = "generate_answer"
                 /\ UNCHANGED << attempts, last_error, sql, response, escaped >>
    /\ UNCHANGED << config, schema_summary, outside >>

\* line 64 without its `return`: control falls back to the top of the loop
ReturnSuccessMissing(answer_) ==
    LoopHead(sql, attempts, last_error)

\* line 64: `return AgentResponse(sql, result, error=None, attempts, answer)`
ReturnSuccess(answer_) ==
    /\ pc' = "returned"
    /\ response' = Some(AgentResponse(sql, result, None, attempts, Some(answer_)))

\* lines 58-64: render the rows, synthesize the answer, return
GenerateAnswer ==
    /\ pc = "generate_answer"
    /\ LET args == [question |-> question, sql |-> sql,
                    results |-> to_string(result[1].dataframe)]
       IN  \/ \E raw \in RawAnswers :
                /\ trace' = Append(trace, Call("generate_answer", args, TRUE, Strip(raw)))
                /\ ReturnSuccess(Strip(raw))
                /\ UNCHANGED << attempts, last_error, sql, escaped, result >>
           \/ \E exc \in LlmErrors :
                /\ trace' = Append(trace, Call("generate_answer", args, FALSE, exc))
                /\ ExceptHandler(exc)
                /\ UNCHANGED result
    /\ UNCHANGED << config, schema_summary, database, outside >>

\* lines 71-78 (inside the except block) and the next loop condition
RefineSqlOnError ==
    /\ pc = "refine_sql_on_error"
    /\ LET args == RefineArgs(question, schema_summary[1], sql, last_error[1],
                              dialect)
       IN  \/ \E raw \in RawSqlOutputs :
                /\ trace' = Append(trace, Call("refine_sql_on_error", args, TRUE,
                                               Strip(raw)))
                /\ sql' = Strip(raw)
                /\ attempts' = NextAttempt(attempts)
                /\ LoopHead(Strip(raw), NextAttempt(attempts), last_error)
                /\ UNCHANGED << last_error, escaped >>
           \/ \E exc \in LlmErrors :
                /\ trace' = Append(trace, Call("refine_sql_on_error", args, FALSE, exc))
                /\ Propagate(exc)
    /\ UNCHANGED << config, schema_summary, result, database, outside >>

Next ==
    \/ GetSchemaSummary
    \/ GenerateSql
    \/ RunReadOnlyQuery
    \/ GenerateAnswer
    \/ RefineSqlOnError

Spec == Init /\ [][Next]_vars

\* A run whose every collaborator call eventually returns or raises:
\* answer_question is sequential code, so its one enabled step is taken.
FairSpec == Spec /\ WF_vars(Next)

\* ------------------------------------------------------- observations
\* positions in the trace of the calls to one collaborator operation
CallsOf(op) == {i \in 1..Len(trace) : trace[i].op = op}
ExecCalls == Cardinality(CallsOf("run_read_only_query"))
RefineCalls == Cardinality(CallsOf("refine_sql_on_error"))
\* the most recent collaborator call
Last == trace[Len(trace)]
LastIs(ops, ok) == Len(trace) > 0 /\ Last.op \in ops /\ Last.ok = ok
\* terminal states of a run
Succeeded == pc = "returned" /\ LastIs({"generate_answer"}, TRUE)
Exhausted == pc = "returned" /\ ~ Succeeded
Terminal == pc \in {"returned", "raised"}
\* the state the except block leaves behind for an error text, from a state
\* with the given locals
HandledAs(msg, sql_, attempts_, max_) ==
    /\ last_error' = Some(msg)
    /\ attempts' = attempts_
    /\ sql' = sql_
    /\ escaped' = None
    /\ IF attempts_ < max_
       THEN pc' = "refine_sql_on_error" /\ response' = None
       ELSE /\ pc' = "returned"
            /\ response' = Some([sql |-> sql_, result |-> None, error |-> Some(msg),
                                 attempts |-> attempts_, answer |-> None])

C2_NoRetryAfterQueryResult ==
    \A i \in CallsOf("run_read_only_query") :
        trace[i].ok =>
            /\ \A j \in (i + 1)..Len(trace) :
                   trace[j].op \notin {"run_read_only_query", "refine_sql_on_error"}
            /\ pc \in {"generate_answer", "returned"}
            /\ pc = "returned" => Succeeded

\* C2 amended: the first attempt in which run_read_only_query returns a
\* QueryResult and generate_answer returns an answer is the last one: the run
\* is then in the terminal Succeeded state, nothing is called afterwards, and
\* this holds whatever budget remains.
C2_NoRetryAfterSuccess ==
    \A i \in CallsOf("generate_answer") :
        trace[i].ok =>
            /\ i = Len(trace)
            /\ trace[i - 1].op = "run_read_only_query" /\ trace[i - 1].ok
            /\ pc = "returned"
            /\ response # None
            /\ response[1].error = None
            /\ response[1].result # None
            /\ \A j \in CallsOf("generate_answer") : j < i => ~ trace[j].ok

C2_SucceededWithBudgetLeft ==
    Succeeded /\ response[1].attempts < max_retries

\* ----------------------------------------------------------------- C3
AllExecutionsFailed ==
    /\ CallsOf("run_read_only_query") # {}
    /\ \A i \in CallsOf("run_read_only_query") : ~ trace[i].ok
AllRefinementsReturned ==
    \A i \in CallsOf("refine_sql_on_error") : trace[i].ok
EndsExhaustedAtBudget ==
    /\ Exhausted
    /\ ExecCalls = max_retries
    /\ response[1].attempts = max_retries
    /\ response[1].result = None

C4_AttemptsWithinOneAndMax ==
    /\ pc \in {"run_read_only_query", "generate_answer", "refine_sql_on_error",
               "returned"}
          => (1 <= attempts /\ attempts <= max_retries)
    /\ pc = "returned"
          => (1 <= response[1].attempts /\ response[1].attempts <= max_retries)

\* ----------------------------------------------------------------- C5
\* C5 as stated: whichever collaborator call fails, no failure leaves
\* answer_question as an exception.
C5_NothingEscapes == pc # "raised"

\* C5 amended: a failure of query execution or of answer synthesis is caught
\* (the run goes on to a refinement or returns an AgentResponse); a failure of
\* the schema summary, of the initial generation or of a refinement leaves
\* answer_question as that exception and no AgentResponse is returned.
C5_OnlyTryBlockFailuresCaught ==
    /\ LastIs({"run_read_only_query", "generate_answer"}, FALSE)
          => /\ pc \in {"refine_sql_on_error", "returned"}
             /\ escaped = None
             /\ pc = "returned" => response # None
    /\ LastIs({"get_schema_summary", "generate_sql", "refine_sql_on_error"}, FALSE)
          => /\ pc = "raised"
             /\ escaped = Some(Last.value)
             /\ response = None
    /\ pc = "raised"
          => LastIs({"get_schema_summary", "generate_sql", "refine_sql_on_error"},
                    FALSE)

C5_FailuresCaughtAndReturned ==
    /\ pc = "returned"
    /\ \E i \in CallsOf("run_read_only_query") : ~ trace[i].ok
    /\ \E i \in CallsOf("generate_answer") : ~ trace[i].ok

\* ----------------------------------------------------------------- C6
\* C6 as stated: the response of a run that did not succeed has result None,
\* answer None, the last attempted candidate as sql, the attempt count as
\* attempts, and as error the text of the failure of the final attempt.
C6_FailureResponseCarriesLastError ==
    Exhausted =>
        /\ response[1].result = None
        /\ response[1].answer = None
        /\ response[1].sql = sql
        /\ response[1].attempts = attempts
        /\ response[1].error # None
        /\ LastIs({"run_read_only_query", "generate_answer"}, FALSE)
        /\ response[1].error = Some(Str(Last.value))

\* ----------------------------------------------------------------- C7
\* C7: the response of a successful run has error None, the QueryResult and
\* the candidate of the execution that succeeded, the synthesizer's output for
\* that question, candidate and rendered result, and attempts equal to the
\* number of execution attempts made, one more than the refinement calls.
C7_SuccessResponse ==
    Succeeded =>
        LET r == response[1]
            a == trace[Len(trace)]
            e == trace[Len(trace) - 1]
        IN  /\ e.op = "run_read_only_query" /\ e.ok
            /\ r.error = None
            /\ r.result = Some(e.value)
            /\ e.value.rowcount = Len(e.value.dataframe.rows)
            /\ r.sql = e.args
            /\ r.answer = Some(a.value)
            /\ a.args = [question |-> question, sql |-> r.sql,
                         results |-> to_string(e.value.dataframe)]
            /\ r.attempts = ExecCalls
            /\ RefineCalls = r.attempts - 1

C7_SecondCandidateSucceeds ==
    /\ Succeeded
    /\ response[1].attempts = 2
    /\ RefineCalls = 1
    /\ ~ trace[3].ok /\ trace[3].op = "run_read_only_query"

\* ----------------------------------------------------------------- C8
\* C8: a candidate the guard rejects counts as one execution attempt and is
\* handled as any failed execution: the guard's message becomes the last
\* error, a refinement is requested when attempts < max_retries, otherwise the
\* run ends Exhausted with that message; the run is never aborted.
C8_GuardRejectionIsOrdinaryFailure ==
    [][ (pc = "run_read_only_query" /\ ~ is_read_only_sql(sql))
            => /\ ExecCalls' = ExecCalls + 1
               /\ Last' = Call("run_read_only_query", sql, FALSE, UnsafeError)
               /\ HandledAs(Str(UnsafeError), sql, attempts, max_retries)
               /\ pc' # "raised" ]_vars

C8_RejectedThenRefinedThenExhausted ==
    /\ Exhausted
    /\ LastIs({"run_read_only_query"}, FALSE)
    /\ Last.value = UnsafeError
    /\ \E i \in CallsOf("run_read_only_query") :
          /\ i < Len(trace)
          /\ trace[i].value = UnsafeError
          /\ trace[i + 1].op = "refine_sql_on_error"

\* ----------------------------------------------------------------- C9
IsConnectivityFailure(call) ==
    call.op = "run_read_only_query" /\ ~ call.ok /\ call.value \in ConnectivityErrors

C10_OnlyReadOnlyStatementsExecuted ==
    [][ /\ \A i \in 1..Len(executed') : is_read_only_sql(executed'[i])
        /\ (pc = "run_read_only_query" /\ ~ is_read_only_sql(sql))
              => /\ executed' = executed
                 /\ connects' = connects
                 /\ Last'.value = UnsafeError ]_vars

C10_RejectedAndExecuted ==
    /\ \E i \in CallsOf("run_read_only_query") : trace[i].value = UnsafeError
    /\ Len(executed) >= 1
    /\ connects > Len(executed)

\* ---------------------------------------------------------------- C11
\* a refinement call is made by the step
RefinementCalled ==
    Len(trace') = Len(trace) + 1 /\ trace'[Len(trace')].op = "refine_sql_on_error"
\* a refinement call follows a failed attempt with budget left
RefinementOnlyAfterFailureWithBudget ==
    RefinementCalled =>
        /\ pc = "refine_sql_on_error"
        /\ LastIs({"run_read_only_query", "generate_answer"}, FALSE)
        /\ attempts < max_retries

DefaultMaxRetries == 3

\* `if response.error is not None or response.result is None: return 1`,
\* else `return 0`
MainExitCodeAlwaysZero(response_) == 0
MainExitCode(response_) ==
    IF response_.error # None \/ response_.result = None THEN 1 ELSE 0

\* main has built the agent with create_agent(db_uri); nothing has run yet
MainInit ==
    /\ max_retries = DefaultMaxRetries
    /\ question \in Questions
    /\ dialect \in Dialects
    /\ pc = "not_called"
    /\ schema_summary = None
    /\ attempts = 0
    /\ last_error = None
    /\ sql = << >>
    /\ result = None
    /\ response = None
    /\ escaped = None
    /\ trace = << >>
    /\ executed = << >>
    /\ connects = 0
    /\ main_pc = "test_connection"
    /\ connected = None
    /\ exit_code = None
    /\ fn_in = << >>
    /\ fn_outs = << >>

\* main.py 45-49: `if not agent._db.test_connection(): ... return 1`, else the
\* call of answer_question.  test_connection returns False on a
\* SQLAlchemyError and lets any other exception through.
TestConnection ==
    /\ main_pc = "test_connection"
    /\ \/ /\ connected' = Some(TRUE)
          /\ main_pc' = "answer_question"
          /\ pc' = "get_schema_summary"
          /\ UNCHANGED exit_code
       \/ /\ connected' = Some(FALSE)
          /\ main_pc' = "exited"
          /\ exit_code' = Some(1)
          /\ UNCHANGED pc
       \/ /\ connected' = None
          /\ main_pc' = "raised"
          /\ UNCHANGED << pc, exit_code >>
    /\ UNCHANGED << config, schema_summary, attempts, last_error, sql, result,
                    response, escaped, trace, database, fn_in, fn_outs >>

\* main.py 51-63: print the response and return the exit code
MainReturn ==
    /\ main_pc = "answer_question"
    /\ pc = "returned"
    /\ exit_code' = Some(MainExitCode(response[1]))
    /\ main_pc' = "exited"
    /\ UNCHANGED << agent, connected, fn_in, fn_outs >>

\* main.py 49: an exception of answer_question is not caught by main
MainRaise ==
    /\ main_pc = "answer_question"
    /\ pc = "raised"
    /\ main_pc' = "raised"
    /\ UNCHANGED << agent, connected, exit_code, fn_in, fn_outs >>

MainNext ==
    \/ TestConnection
    \/ GetSchemaSummary
    \/ GenerateSql
    \/ RunReadOnlyQuery
    \/ GenerateAnswer
    \/ RefineSqlOnError
    \/ MainReturn
    \/ MainRaise

MainSpec == MainInit /\ [][MainNext]_vars

\* ---------------------------------------------------------------- C12
\* C12: main returns 1 without calling answer_question when test_connection
\* fails, returns 1 when the run ends Exhausted (the response then has an error
\* or no result), and returns 0 exactly when the run succeeded.
C12_MainExitCode ==
    /\ connected = Some(FALSE)
          => /\ main_pc = "exited"
             /\ exit_code = Some(1)
             /\ pc = "not_called"
             /\ trace = << >>
    /\ (main_pc = "exited" /\ Exhausted)
          => /\ exit_code = Some(1)
             /\ (response[1].error # None \/ response[1].result = None)
    /\ exit_code = Some(0) <=> (main_pc = "exited" /\ Succeeded)

C12_ExhaustedExitsWithOne ==
    /\ main_pc = "exited"
    /\ exit_code = Some(1)
    /\ Exhausted
    /\ response[1].attempts = DefaultMaxRetries

\* ------------------------------------------------------ pure functions
\* Longest argument text, in pieces, of a checked pure-function call.
MaxPieces == 3

\* the texts made of at most n pieces
RECURSIVE Concats(_, _)
Concats(pieces, n) ==
    IF n = 0 THEN { << >> }
    ELSE LET shorter == Concats(pieces, n - 1)
         IN  shorter \cup { p \o t : p \in pieces, t \in shorter }

\* no agent is running and main is not running
NothingRunning ==
    /\ max_retries = DefaultMaxRetries
    /\ question \in Questions
    /\ dialect = "sqlite"
    /\ pc = "not_called"
    /\ schema_summary = None
    /\ attempts = 0
    /\ last_error = None
    /\ sql = << >>
    /\ result = None
    /\ response = None
    /\ escaped = None
    /\ trace = << >>
    /\ executed = << >>
    /\ connects = 0
    /\ main_pc = "none"
    /\ connected = None
    /\ exit_code = None

\* fragments of SQL text: keywords in either case, split keywords, whitespace,
\* harmless text
SqlPieces ==
    { <<"d","r","o","p">>, <<"D","R">>, <<"O","P">>, <<" ">>, <<"\n">>,
      <<"u","p","d","a","t","e","s">>, <<"i","n">>, <<"s","e","r","t">>,
      <<"D","E","L","E","T","E">>, <<"A","l","t","e","r">>,
      <<"t","r","u","n","c","a","t","e">>,
      <<"S","E","L","E","C","T"," ","*"," ","F","R","O","M"," ">>, <<"x">> }

GuardInit ==
    /\ NothingRunning
    /\ fn_in \in Concats(SqlPieces, MaxPieces)
    /\ fn_outs = << >>

\* one call is_read_only_sql(fn_in)
IsReadOnlySqlCall ==
    /\ fn_outs = << >>
    /\ fn_outs' = << is_read_only_sql(fn_in) >>
    /\ UNCHANGED << agent, main_pc, connected, exit_code, fn_in >>

GuardNext == IsReadOnlySqlCall

GuardSpec == GuardInit /\ [][GuardNext]_vars

\* ---------------------------------------------------------------- C13
\* The text with every letter upper-cased, every run of whitespace inside it
\* replaced by one space and the whitespace at its ends removed, built in one
\* pass from index i on.
RECURSIVE CollapsedUpperFrom(_, _, _)
CollapsedUpperFrom(s, i, acc) ==
    IF i > Len(s) THEN acc
    ELSE IF s[i] \in Whitespace THEN CollapsedUpperFrom(s, i + 1, acc)
    ELSE CollapsedUpperFrom(s, i + 1,
            (IF acc # << >> /\ s[i - 1] \in Whitespace
             THEN Append(acc, " ") ELSE acc) \o << UpperChar(s[i]) >>)

\* word occurs in text at some position, character by character
OccursIn(word, text) ==
    \E start \in 0..Len(text) :
        \A j \in 1..Len(word) :
            start + j <= Len(text) /\ text[start + j] = word[j]

MutatingKeywords ==
    { <<"I","N","S","E","R","T">>, <<"U","P","D","A","T","E">>,
      <<"D","E","L","E","T","E">>, <<"D","R","O","P">>,
      <<"A","L","T","E","R">>, <<"T","R","U","N","C","A","T","E">> }

\* C13: is_read_only_sql returns a boolean for every text, False exactly when
\* the whitespace-collapsed, upper-cased text contains one of INSERT, UPDATE,
\* DELETE, DROP, ALTER, TRUNCATE as a substring.
C13_GuardIsKeywordSubstringTest ==
    fn_outs # << >> =>
        /\ fn_outs[1] \in BOOLEAN
        /\ fn_outs[1] = FALSE <=>
              \E keyword \in MutatingKeywords :
                  OccursIn(keyword, CollapsedUpperFrom(fn_in, 1, << >>))

C13_UpdatesTableRejected ==
    /\ fn_in = <<"S","E","L","E","C","T"," ","*"," ","F","R","O","M"," ",
                 "u","p","d","a","t","e","s">>
    /\ fn_outs = << FALSE >>

\* --------------------------------------------------------------- app_core
\* str.lower() on one character
LowerChar(c) ==
    IF \E i \in 1..Len(UpperLetters) : UpperLetters[i] = c
    THEN LowerLetters[CHOOSE i \in 1..Len(UpperLetters) : UpperLetters[i] = c]
    ELSE c

\* str.lower()
Lower(s) == [i \in 1..Len(s) |-> LowerChar(s[i])]

\* str.startswith(prefix)
StartsWith(s, prefix) ==
    Len(s) >= Len(prefix) /\ SubSeq(s, 1, Len(prefix)) = prefix

SqlitePrefix == <<"s","q","l","i","t","e",":">>
SqliteUrlHead == <<"s","q","l","i","t","e",":","/","/","/">>
SchemeSeparator == <<":","/","/">>

\* db_manager.build_sqlite_uri_from_path
BuildSqliteUriTwoSlashes(path) ==
    LET p == Strip(path)
    IN  IF StartsWith(Lower(p), SqlitePrefix) THEN p
        ELSE <<"s","q","l","i","t","e",":","/","/">> \o p
build_sqlite_uri_from_path(path) ==
    LET p == Strip(path)
    IN  IF StartsWith(Lower(p), SqlitePrefix) THEN p
        ELSE SqliteUrlHead \o p

\* app_core.normalize_db_uri
NormalizeAlwaysWraps(raw) == SqliteUrlHead \o Strip(raw)
normalize_db_uri(raw) ==
    LET r == Strip(raw)
    IN  IF Contains(r, SchemeSeparator) THEN r
        ELSE build_sqlite_uri_from_path(r)

\* fragments of database identifiers: whitespace, schemes, separators, paths
UriPieces ==
    { <<" ">>, <<"\t">>, SqlitePrefix, <<"S","Q","L","i","t","e",":">>,
      SqliteUrlHead, SchemeSeparator, <<"/">>, <<"p","g">>,
      <<"d","a","t","a","/","e","x","a","m","p","l","e",".","d","b">> }

UriInit ==
    /\ NothingRunning
    /\ fn_in \in Concats(UriPieces, MaxPieces)
    /\ fn_outs = << >>

\* normalize_db_uri applied to fn_in, then to its own result
NormalizeDbUriCall ==
    /\ Len(fn_outs) < 2
    /\ fn_outs' = Append(fn_outs,
                         normalize_db_uri(IF fn_outs = << >> THEN fn_in
                                          ELSE fn_outs[Len(fn_outs)]))
    /\ UNCHANGED << agent, main_pc, connected, exit_code, fn_in >>

UriNext == NormalizeDbUriCall

UriSpec == UriInit /\ [][UriNext]_vars

\* ---------------------------------------------------------------- C14
\* C14: normalize_db_uri is idempotent: applied to its own result it returns
\* that result.
C14_NormalizeIdempotent ==
    Len(fn_outs) = 2 => fn_outs[2] = fn_outs[1]

C14_NormalizedTwiceAfterChange ==
    /\ Len(fn_outs) = 2
    /\ fn_outs[1] # fn_in
    /\ fn_outs[1] # Strip(fn_in)

\* ---------------------------------------------------------------- C15
\* the text begins with "sqlite:" in any mix of cases
BeginsWithSqliteScheme(text) ==
    /\ Len(text) >= 7
    /\ \A j \in 1..7 : UpperChar(text[j]) = <<"S","Q","L","I","T","E",":">>[j]

IsFailedGeneration(call) ==
    call.op \in {"generate_sql", "refine_sql_on_error"} /\ ~ call.ok
\* the step makes a generate_sql or refine_sql_on_error call that raises
GenerationFails ==
    /\ pc \in {"generate_sql", "refine_sql_on_error"}
    /\ Len(trace') = Len(trace) + 1
    /\ IsFailedGeneration(trace'[Len(trace')])

\* C16 as stated: when generate_sql or refine_sql_on_error raises, the run is
\* not aborted: the failure is handled as a failed attempt, with a refinement
\* requested for it while budget is left.
C16_GenerationFailureConsumesRetry ==
    [][ GenerationFails
            => /\ pc' \in {"refine_sql_on_error", "returned"}
               /\ last_error' = Some(Str(trace'[Len(trace')].value)) ]_vars

\* C16 amended: when generate_sql or refine_sql_on_error raises, the exception
\* is not handled: it leaves answer_question at once, no attempt is consumed,
\* no last error is recorded, no AgentResponse is returned and no further call
\* (in particular no refinement) is made.
C16_GenerationFailureAbortsRun ==
    [][ /\ GenerationFails
            => /\ pc' = "raised"
               /\ escaped' = Some(trace'[Len(trace')].value)
               /\ attempts' = attempts
               /\ last_error' = last_error
               /\ sql' = sql
               /\ response' = None
        /\ \A i \in 1..Len(trace) : ~ IsFailedGeneration(trace[i]) ]_vars

C16_RefinementRaised ==
    /\ pc = "raised"
    /\ LastIs({"refine_sql_on_error"}, FALSE)
    /\ ExecCalls = 2
    /\ attempts < max_retries

\* ---------------------------------------------------------------- C17
IsSqlEvent(call) ==
    call.op \in {"generate_sql", "run_read_only_query", "refine_sql_on_error"}
\* the generate / execute / refine calls of the run, in order
SqlEvents == SelectSeq(trace, IsSqlEvent)
\* positions of the generation and refinement calls that returned a candidate
CandidatesProduced ==
    {i \in 1..Len(trace) :
        trace[i].op \in {"generate_sql", "refine_sql_on_error"} /\ trace[i].ok}
\* the candidate a failed attempt was made with
CandidateOf(call) ==
    IF call.op = "run_read_only_query" THEN call.args ELSE call.args.sql

\* C17: every refinement call receives the candidate whose attempt has just
\* failed and the text of that failure; the candidate a generation or
\* refinement returns becomes the current one and is exactly what the next
\* execution attempt runs; the calls follow the order generate, execute, then
\* refine, execute repeated.
C17_OneCurrentCandidate ==
    /\ \A i \in CallsOf("refine_sql_on_error") :
          /\ i > 1
          /\ ~ trace[i - 1].ok
          /\ trace[i - 1].op \in {"run_read_only_query", "generate_answer"}
          /\ trace[i].args.previous_sql = CandidateOf(trace[i - 1])
          /\ trace[i].args.error_message = Str(trace[i - 1].value)
    /\ \A i \in CandidatesProduced :
          /\ (\A j \in CandidatesProduced : j <= i) => sql = trace[i].value
          /\ i < Len(trace)
                => /\ trace[i + 1].op = "run_read_only_query"
                   /\ trace[i + 1].args = trace[i].value
    /\ CandidatesProduced = {} => sql = << >>
    /\ \A k \in 1..Len(SqlEvents) :
          SqlEvents[k].op = (IF k = 1 THEN "generate_sql"
                             ELSE IF k % 2 = 0 THEN "run_read_only_query"
                             ELSE "refine_sql_on_error")

C17_RefinedAfterBothKindsOfFailure ==
    /\ pc = "returned"
    /\ RefineCalls = 2
    /\ \E i \in CallsOf("refine_sql_on_error") :
          trace[i - 1].op = "generate_answer"
    /\ \E i \in CallsOf("refine_sql_on_error") :
          /\ trace[i - 1].op = "run_read_only_query"
          /\ trace[i].value # trace[i].args.previous_sql

\* ------------------------------------------------------------------- C18
IsGenerationCall(call) == call.op \in {"generate_sql", "refine_sql_on_error"}
GenerationCalls == {i \in 1..Len(trace) : IsGenerationCall(trace[i])}
SchemaCalls == CallsOf("get_schema_summary")

\* C18: in one run of answer_question get_schema_summary is called exactly
\* once, as the first collaborator call and so before generate_sql, and every
\* generate_sql and refine_sql_on_error call receives the question of the run,
\* the summary that one call returned and the dialect of the database: the
\* three values are the same in every attempt.
C18_SchemaOnceAndInputsFixed ==
    /\ Cardinality(SchemaCalls) = (IF pc = "get_schema_summary" THEN 0 ELSE 1)
    /\ SchemaCalls \subseteq {1}
    /\ \A i \in GenerationCalls :
          /\ trace[1].ok
          /\ trace[i].args.question = question
          /\ trace[i].args.schema_summary = trace[1].value
          /\ trace[i].args.dialect = dialect
    /\ \A i \in CallsOf("generate_sql") : i = 2

C18_ThreeGenerationsOnPostgres ==
    /\ pc = "returned"
    /\ dialect = "postgresql"
    /\ Cardinality(GenerationCalls) = 3
    /\ \A i \in GenerationCalls : trace[i].args.dialect = "postgresql"

\* ------------------------------------------------------------------- C19
\* one iteration of the while loop starts with one run_read_only_query call
LoopIterations == Cardinality(CallsOf("run_read_only_query"))
\* the most iterations a budget allows; a budget of 0 or less allows none
IterationBound(max_) == IF max_ < 1 THEN 0 ELSE max_
\* at most three collaborator calls per iteration after the two before the loop
CallBound(max_) == 2 + 3 * IterationBound(max_)

\* C19: for every max_retries, 0 and negative values included, and whatever
\* the collaborators return or raise, a run in which every call completes
\* reaches a terminal state (returned or raised), and on the way the loop
\* runs a number of iterations bounded by max_retries: at most max_retries
\* of them, and none when max_retries is 0 or negative.
C19_TerminatesWithinBoundedIterations ==
    /\ <>Terminal
    /\ [](/\ LoopIterations <= IterationBound(max_retries)
          /\ Len(trace) <= CallBound(max_retries))

C19_NegativeBudgetTerminated ==
    /\ pc = "returned"
    /\ max_retries < 0
    /\ LoopIterations = 0
    /\ LastIs({"generate_sql"}, TRUE)

\* ------------------------------------------------------------------- C20
\* the step in which generate_answer raises
AnswerFails == pc = "generate_answer" /\ Len(trace') = Len(trace) + 1 /\ ~ Last'.ok
\* the state left by a failed generate_answer when budget remains
AnswerFailedBudgetLeft ==
    pc = "refine_sql_on_error" /\ LastIs({"generate_answer"}, FALSE)

\* C20: when generate_answer raises after a successful execution the loop
\* treats the attempt as failed: the error text of the answer failure becomes
\* the last error and the attempt counter is unchanged; with
\* attempts < max_retries the next call is refine_sql_on_error on the candidate
\* that had just executed successfully, with that error text; otherwise the
\* run returns a failure response with result None. The QueryResult obtained
\* is in no response of the failed attempt.
C20_AnswerFailureIsFailedAttempt ==
    [][ /\ AnswerFails
            => /\ LastIs({"run_read_only_query"}, TRUE)
               /\ Last.args = sql
               /\ Last'.op = "generate_answer"
               /\ HandledAs(Str(Last'.value), sql, attempts, max_retries)
               /\ pc' = "returned" => response'[1].result = None
        /\ AnswerFailedBudgetLeft
            => /\ Last'.op = "refine_sql_on_error"
               /\ Last'.args.previous_sql = Last.args.sql
               /\ Last'.args.previous_sql = trace[Len(trace) - 1].args
               /\ trace[Len(trace) - 1].ok
               /\ Last'.args.error_message = Str(Last.value) ]_vars

C20_AnswerFailedTwice ==
    /\ Exhausted
    /\ LastIs({"generate_answer"}, FALSE)
    /\ response[1].result = None
    /\ response[1].error = Some(Str(Last.value))
    /\ \E i \in CallsOf("refine_sql_on_error") :
          /\ trace[i - 1].op = "generate_answer"
          /\ trace[i - 2].ok
          /\ trace[i].args.previous_sql = trace[i - 2].args

=============================================================================
